---- MODULE Spec2Model ----
(***************************************************************************)
(* Model of the per-node script sandbox, src/Editor/script.py              *)
(* (class LuaScriptSandbox).  One sandbox object owns one Lua runtime and  *)
(* the caller's node data and player data; execute(user_script) builds an  *)
(* environment table, loads and runs the script in it under pcall, and     *)
(* reads the results back.                                                 *)
(*                                                                         *)
(* Second part: the editor application, src/TkApp.py with the node editor  *)
(* (src/Editor/story_node.py), the choice editor (src/Editor/choice.py)    *)
(* and the metadata form (src/Editor/main_menu.py), which keep the story   *)
(* map the sandbox's node data comes from.                                 *)
(*                                                                         *)
(* Third part: the processes around the editor, src/cytor.py (the          *)
(* visualizer that starts editor processes and writes the command file)    *)
(* and the editor's background thread in src/TkApp.py (shared-data file,   *)
(* command poll), the story graph the visualizer draws, and the emoji      *)
(* schema, src/emojiSchema.py.                                             *)
(***************************************************************************)
EXTENDS Integers, Sequences, FiniteSets, TLC

VARIABLES
    curNode,      \* self.cur_node: the caller's node-data dict
    playerData,   \* self.player_data: the caller's player-data dict
    libs,         \* fields of the runtime's global math/string/table tables
    opened,       \* host resources (files, processes) opened by scripts
    defined,      \* names that scripts of earlier calls bound themselves
    called,       \* execute has been called at least once
    scriptFacts,  \* what the last call's user_script was: text, parses, ...
    ret,          \* value returned by the last execute call
    raised,       \* exception that left the last execute call
    log,          \* line printed by the last execute call
    envStart,     \* sandbox_env as built, before load
    choiceMap,    \* choice_map of the last call
    success,      \* first value the wrapper returned (line 60)
    envAfter,     \* sandbox_env when the wrapper returned
    written,      \* names the chunk assigned during the last call
    ran,          \* number of script statements the last call executed
    pc,           \* where the caller's thread is: "idle", or inside a loop
    story_map,          \* CYOAMakerApplication.story_map: id -> node dict
    current_node_data,  \* .current_node_data: a node of the map, or a dict of its own
    current_view,       \* .current_view: which frame is displayed
    choice_original_id, \* the choice editor's original_id (choice.py line 27)
    player_data,        \* .player_data: StartID and currentID
    metadata,           \* .metadata, as far as the start node goes
    lastOp,             \* the operation that ran last, and the id it was about
    current_schema,     \* EmojiSchema.current_schema: the schema text
    editor_process,     \* cytor.editor_process: None, or the process last started
    procs,              \* the editor processes: threads, flags, application
    command_file,       \* contents of cyoa_commands.pkl
    shared_data_file,   \* contents of cyoa_shared_data.pkl
    writing,            \* the command send_command_to_editor is about to dump
    sent                \* the calls of send_command_to_editor so far, in order

\* The sandbox object's part of the state.
sandboxVars == <<curNode, playerData, libs, opened, defined, called,
                 scriptFacts, ret, raised, log, envStart, choiceMap, success,
                 envAfter, written, ran, pc>>

\* The editor application's part of the state.
appVars == <<story_map, current_node_data, current_view, choice_original_id,
             player_data, metadata, lastOp>>

\* The visualizer, the editor processes it starts and the files between them.
ipcVars == <<editor_process, procs, command_file, shared_data_file, writing,
             sent>>

vars == <<curNode, playerData, libs, opened, defined, called, scriptFacts,
          ret, raised, log, envStart, choiceMap, success, envAfter, written,
          ran, pc, story_map, current_node_data, current_view,
          choice_original_id, player_data, metadata, lastOp, current_schema,
          editor_process, procs, command_file, shared_data_file, writing,
          sent>>

-----------------------------------------------------------------------------
(* Bounds *)

MaxChoices == 2      \* longest choice list of a node
MaxScriptLen == 2    \* longest script, in statements
MaxEdChoices == 3    \* longest choice list the editor is driven to

-----------------------------------------------------------------------------
(* Values.  Python and Lua values are tagged records.                      *)

PyInt(n) == [k |-> "int", v |-> n]
PyStr(s) == [k |-> "str", v |-> s]
PyBool(b) == [k |-> "bool", v |-> b]
Nil == [k |-> "nil"]                   \* Lua nil
None == [k |-> "none"]                 \* Python None
BadStr == [k |-> "badstr"]             \* Python str that cannot be encoded
LibTab(n) == [k |-> "lib", v |-> n]    \* a library table of the runtime
Fn(n) == [k |-> "fn", v |-> n]         \* a Lua function
Tab(n) == [k |-> "tab", v |-> n]       \* a Lua table built by table_from
NoReturn == [k |-> "noreturn"]         \* execute did not return

\* lupa's py_to_lua on the scalars: None becomes nil, the rest keep their
\* value (BadStr raises before this is used).
PyToLua(v) == IF v = None THEN Nil ELSE v

\* lupa's lua_to_py: nil becomes None; tables and functions are wrapped.
LuaToPy(v) == IF v = Nil THEN None ELSE v

-----------------------------------------------------------------------------
(* Names *)

RECURSIVE Join(_)
Join(s) == IF s = <<>> THEN "" ELSE Head(s) \o Join(Tail(s))

\* Choice identifiers are strings, modelled as sequences of characters.
IdPool == { <<"a", "-", "b">>, <<"a", "_", "b">>, <<"c", "-", "d">> }

\* str(original_id).replace('-', '_')
ToLuaSafeId(original_id) ==
    [i \in 1..Len(original_id) |->
        IF original_id[i] = "-" THEN "_" ELSE original_id[i]]

\* f"choice_{safe_id}"
FlagName(safe_id) == "choice_" \o Join(safe_id)

FlagNames == { FlagName(ToLuaSafeId(id)) : id \in IdPool }

\* The names the eval of lines 17-24 copies from the runtime's globals.
WhiteRoom == {"math", "string", "table", "pairs", "ipairs",
              "tonumber", "tostring", "print"}

LibNames == {"math", "string", "table"}

\* Globals of the Lua runtime that are not copied into the environment.
OuterOnly == {"io", "os", "require", "load", "dofile"}

ContextNames == {"url", "description", "choices"}

PlayerKeys == {"energy", "choice_a_b"}

ScriptNames == {"tmp"}

Names == WhiteRoom \cup OuterOnly \cup ContextNames \cup PlayerKeys
            \cup FlagNames \cup ScriptNames

\* The runtime's global table (LuaRuntime(), line 7).
Globals ==
    [n \in WhiteRoom \cup OuterOnly |->
        IF n \in LibNames \cup {"io", "os"} THEN LibTab(n) ELSE Fn(n)]

LibFields == {"n"}

-----------------------------------------------------------------------------
(* Inputs: node data, player data, scripts *)

Choice(id) == [id |-> id, text |-> "t"]
NoIdChoice == [text |-> "t"]           \* a choice record without 'id'

ChoicePool == { Choice(id) : id \in IdPool }

\* Choice lists up to MaxChoices that repeat no record (a repeated record
\* is the same identifier again: it adds no flag and no entry).
ChoiceLists ==
    UNION { { cs \in [1..n -> ChoicePool] :
                \A i, j \in 1..n : i # j => cs[i] # cs[j] } : n \in 0..MaxChoices }

\* Node data: every such choice list, a list whose second record lacks
\* 'id', and a dict without 'url' and 'choices'.
Nodes ==
    { [url |-> PyStr("u"), description |-> PyStr("d"), choices |-> cs] :
        cs \in ChoiceLists \cup { <<Choice(<<"a", "-", "b">>), NoIdChoice>> } }
    \cup { [description |-> PyStr("d")] }

\* The nodes with at most one choice.
SmallNodes == { n \in Nodes : "choices" \in DOMAIN n => Len(n["choices"]) <= 1 }

\* Player data: the test block's, one with a key that is also a flag name,
\* one with a value lupa cannot convert.
PlayerDatas ==
    { [energy |-> PyInt(20)],
      [energy |-> PyInt(20), choice_a_b |-> PyBool(FALSE)],
      [energy |-> BadStr] }

\* The constructor's arguments: every node with the test block's player
\* data, the small nodes with every player data.
Inputs ==
    { [node |-> n, pd |-> [energy |-> PyInt(20)]] : n \in Nodes }
    \cup { [node |-> n, pd |-> pd] : n \in SmallNodes, pd \in PlayerDatas }

\* dict.get(key, default)
Get(d, key, default) == IF key \in DOMAIN d THEN d[key] ELSE default

\* Statements of a script.
SetG(name, val) == [op |-> "set", name |-> name, val |-> val]     \* name = val
AddG(name, n) == [op |-> "add", name |-> name, n |-> n]           \* name = name + n
CopyG(name, from) == [op |-> "copy", name |-> name, from |-> from] \* name = from
UseSym(sym) == [op |-> "open", sym |-> sym]         \* sym.open("f") / sym("f")
LibSet(lib, field, val) ==
    [op |-> "libset", lib |-> lib, field |-> field, val |-> val]  \* lib.field = val
LibGet(name, lib, field) ==
    [op |-> "libget", name |-> name, lib |-> lib, field |-> field] \* name = lib.field
SyntaxErr == [op |-> "syntax"]                      \* e.g. an unclosed 'if true then'
ChSet(i, field, val) ==
    [op |-> "chset", i |-> i, field |-> field, val |-> val]    \* choices[i].field = val
Loop == [op |-> "loop"]                             \* while true do end

StmtPool ==
    { AddG("energy", 10),
      SetG("energy", Nil),
      SetG("energy", PyStr("hi")),
      SetG("tmp", PyInt(1)),
      SetG("choice_a_b", PyBool(FALSE)),
      SetG("url", Nil),
      UseSym("io"),
      SyntaxErr }

IsoStmtPool ==
    { LibSet("math", "n", PyInt(1)),
      LibGet("energy", "math", "n"),
      SetG("tmp", PyInt(1)),
      CopyG("energy", "tmp"),
      SetG("choices", Nil) }

AdvStmtPool ==
    { ChSet(1, "text", "x"),
      ChSet(2, "text", "x"),
      Loop,
      AddG("energy", 10),
      SetG("choices", Nil) }

SeqsUpTo(S, n) == UNION { [1..m -> S] : m \in 0..n }

\* user_script: a string of statements, or a value that is not a string.
Script(body) == [text |-> TRUE, body |-> body]
NotText == [text |-> FALSE, body |-> <<>>]

Scripts == { Script(b) : b \in SeqsUpTo(StmtPool, MaxScriptLen) } \cup {NotText}

IsoScripts == { Script(b) : b \in SeqsUpTo(IsoStmtPool, MaxScriptLen) }

AdvScripts == { Script(b) : b \in SeqsUpTo(AdvStmtPool, MaxScriptLen) }

-----------------------------------------------------------------------------
(* execute, step 1 and 2: the environment *)

EmptyEnv == [n \in Names |-> Nil]

NoMap == [s \in {} |-> s]

\* Variant: the environment table kept from the previous call.
WhiteRoomEnvKept ==
    [n \in Names |-> IF n \in WhiteRoom THEN Globals[n] ELSE envAfter[n]]

\* The table the eval of lines 17-24 returns: the white-room names bound to
\* the runtime's own globals (the library tables by reference).
WhiteRoomEnv == [n \in Names |-> IF n \in WhiteRoom THEN Globals[n] ELSE Nil]

\* Lines 27-31: url, description and the choices table.
InjectContext(env, node) ==
    [env EXCEPT !["url"] = PyToLua(Get(node, "url", PyStr(""))),
                !["description"] = PyToLua(Get(node, "description", PyStr(""))),
                !["choices"] = Tab("choices")]

\* Lines 34-35: every player-data entry; a value lupa cannot convert raises.
InjectPlayer(env, pd) ==
    IF \E k \in DOMAIN pd : pd[k] = BadStr
    THEN [err |-> "UnicodeEncodeError", env |-> env]
    ELSE [err |-> "none",
          env |-> [n \in Names |-> IF n \in DOMAIN pd THEN PyToLua(pd[n]) ELSE env[n]]]

\* Lines 38-43: the choice loop, in list order.  st = [err, env, map].
RECURSIVE InjectChoices(_, _)
InjectChoices(choices, st) ==
    IF choices = <<>> \/ st.err # "none" THEN st
    ELSE LET choice == Head(choices) IN
         IF "id" \notin DOMAIN choice
         THEN [st EXCEPT !.err = "KeyError"]
         ELSE LET real_id == choice["id"]
                  safe_id == ToLuaSafeId(real_id)
                  m == st.map
              IN InjectChoices(Tail(choices),
                    [err |-> "none",
                     env |-> [st.env EXCEPT ![FlagName(safe_id)] = PyBool(TRUE)],
                     map |-> [s \in DOMAIN m \cup {safe_id} |->
                                 IF s = safe_id THEN real_id ELSE m[s]]])

\* Variant: the choice flags injected first, the player data after them.
BuildEnvPlayerLast(node, pd) ==
    LET c == InjectChoices(Get(node, "choices", <<>>),
                           [err |-> "none",
                            env |-> InjectContext(WhiteRoomEnv, node),
                            map |-> NoMap])
    IN IF c.err # "none" THEN c
       ELSE LET p == InjectPlayer(c.env, pd) IN
            [err |-> p.err, env |-> p.env,
             map |-> IF p.err = "none" THEN c.map ELSE NoMap]

\* Lines 17-43.
BuildEnv(node, pd) ==
    LET p == InjectPlayer(InjectContext(WhiteRoomEnv, node), pd) IN
    IF p.err # "none" THEN [err |-> p.err, env |-> p.env, map |-> NoMap]
    ELSE InjectChoices(Get(node, "choices", <<>>),
                       [err |-> "none", env |-> p.env, map |-> NoMap])

-----------------------------------------------------------------------------
(* execute, step 3: safe_wrapper *)

\* Variant: the chunk loaded without its own scope, so that a name unbound
\* in env resolves in the runtime's globals.
LookupGlobalFallback(env, name) ==
    IF env[name] = Nil /\ name \in DOMAIN Globals THEN Globals[name] ELSE env[name]

\* Name resolution inside the chunk: load(code, "user_script", "t", env)
\* makes env the chunk's only scope.
Lookup(env, name) == env[name]

\* load() succeeds iff the source parses.
Compiles(body) == \A i \in 1..Len(body) : body[i] # SyntaxErr

Fault(st, msg) == [st EXCEPT !.fault = msg]

\* An assignment to a global name of the chunk: a write into env.
Assign(st, name, val) ==
    [st EXCEPT !.env[name] = val, !.written = @ \cup {name}]

\* One statement of the chunk.
\* st = [env, libs, opened, node, written, ran, fault, spins].  node is the
\* caller's node dict: table_from (line 31) copies the list into a Lua table
\* but passes each choice dict as a wrapped reference to the caller's object,
\* which the chunk can index and assign.
ExecStmt(stmt, st) ==
    CASE stmt.op = "set" ->
            Assign(st, stmt.name, stmt.val)
      [] stmt.op = "copy" ->
            Assign(st, stmt.name, Lookup(st.env, stmt.from))
      [] stmt.op = "add" ->
            LET v == Lookup(st.env, stmt.name) IN
            IF v.k = "int"
            THEN Assign(st, stmt.name, PyInt(v.v + stmt.n))
            ELSE Fault(st, "attempt to perform arithmetic on a non-number value")
      [] stmt.op = "open" ->
            LET v == Lookup(st.env, stmt.sym) IN
            IF \/ v.k = "lib" /\ v.v \in {"io", "os"}
               \/ v.k = "fn" /\ v.v \in {"require", "load", "dofile"}
            THEN [st EXCEPT !.opened = @ \cup {stmt.sym}]
            ELSE Fault(st, "attempt to index or call a value that has no such function")
      [] stmt.op = "libset" ->
            LET t == Lookup(st.env, stmt.lib) IN
            IF t.k = "lib" /\ t.v \in LibNames
            THEN [st EXCEPT !.libs[t.v][stmt.field] = stmt.val]
            ELSE IF t.k = "tab" THEN st   \* fields of the choices table are not tracked
            ELSE Fault(st, "attempt to index a non-table value")
      [] stmt.op = "libget" ->
            LET t == Lookup(st.env, stmt.lib) IN
            IF t.k = "lib" /\ t.v \in LibNames
            THEN Assign(st, stmt.name, st.libs[t.v][stmt.field])
            ELSE IF t.k = "str"       \* strings index the string library
            THEN Assign(st, stmt.name, st.libs["string"][stmt.field])
            ELSE IF t.k = "tab" THEN Assign(st, stmt.name, Nil)
            ELSE Fault(st, "attempt to index a non-table value")
      [] stmt.op = "chset" ->
            LET t == Lookup(st.env, "choices")
                cs == Get(st.node, "choices", <<>>)
            IN IF t.k = "tab" /\ stmt.i \in 1..Len(cs)
               THEN LET c == cs[stmt.i]
                        c2 == [f \in DOMAIN c \cup {stmt.field} |->
                                  IF f = stmt.field THEN stmt.val ELSE c[f]]
                    IN [st EXCEPT !.node["choices"][stmt.i] = c2]
               ELSE Fault(st, "attempt to index a nil value")
      [] stmt.op = "loop" ->
            [st EXCEPT !.spins = TRUE]

\* pcall(chunk): statements in order until one faults; a loop whose condition
\* stays true is never left, and pcall has no means to end it.
RECURSIVE RunChunk(_, _)
RunChunk(body, st) ==
    IF body = <<>> \/ st.fault # "" \/ st.spins THEN st
    ELSE RunChunk(Tail(body), ExecStmt(Head(body), [st EXCEPT !.ran = @ + 1]))

SyntaxPrefix == "Syntax Error: "
RuntimePrefix == "Runtime Error: "
CrashPrefix == "Sandbox Crash: "
NoLog == [prefix |-> "", msg |-> ""]

\* Variant: the source executed statement by statement, so that what
\* precedes a syntax error has already run when the error is reported.
RECURSIVE BeforeSyntax(_)
BeforeSyntax(body) ==
    IF body = <<>> \/ Head(body) = SyntaxErr THEN <<>>
    ELSE <<Head(body)>> \o BeforeSyntax(Tail(body))

SafeWrapperEager(env, user_script, libs0, opened0, node) ==
    LET st0 == [env |-> env, libs |-> libs0, opened |-> opened0, node |-> node,
                written |-> {}, ran |-> 0, fault |-> "", spins |-> FALSE]
    IN IF ~user_script.text
       THEN [success |-> "raise",
             text |-> [prefix |-> "", msg |-> "bad argument #1 to 'load'"],
             st |-> st0]
       ELSE LET st1 == RunChunk(BeforeSyntax(user_script.body), st0) IN
            IF st1.fault # ""
            THEN [success |-> "false",
                  text |-> [prefix |-> RuntimePrefix, msg |-> st1.fault],
                  st |-> st1]
            ELSE IF ~Compiles(user_script.body)
            THEN [success |-> "false",
                  text |-> [prefix |-> SyntaxPrefix, msg |-> "unexpected symbol"],
                  st |-> st1]
            ELSE [success |-> "true", text |-> NoLog, st |-> st1]

\* Lines 47-57, called at line 60.  Result: [success, text, st]; success is
\* "raise" when the wrapper itself raises (load on a value that is not a
\* string: the error is outside pcall), "false" for (false, message),
\* "true" for (true, env) and "never" when the chunk does not come back.
\* text is the message, split in prefix and rest.
SafeWrapper(env, user_script, libs0, opened0, node) ==
    LET st0 == [env |-> env, libs |-> libs0, opened |-> opened0, node |-> node,
                written |-> {}, ran |-> 0, fault |-> "", spins |-> FALSE]
    IN IF ~user_script.text
       THEN [success |-> "raise",
             text |-> [prefix |-> "", msg |-> "bad argument #1 to 'load'"],
             st |-> st0]
       ELSE IF ~Compiles(user_script.body)
       THEN [success |-> "false",
             text |-> [prefix |-> SyntaxPrefix, msg |-> "unexpected symbol"],
             st |-> st0]
       ELSE LET st1 == RunChunk(user_script.body, st0) IN
            IF st1.spins
            THEN [success |-> "never", text |-> NoLog, st |-> st1]
            ELSE IF st1.fault # ""
            THEN [success |-> "false",
                  text |-> [prefix |-> RuntimePrefix, msg |-> st1.fault],
                  st |-> st1]
            ELSE [success |-> "true", text |-> NoLog, st |-> st1]

-----------------------------------------------------------------------------
(* execute, step 4: extraction *)

\* Variant: names the script set to nil are left out of the result.
NewPlayerDataSkipNil(updated_env, pd) ==
    [k \in { n \in DOMAIN pd : updated_env[n] # Nil } |-> LuaToPy(updated_env[k])]

\* Lines 72-75.
NewPlayerData(updated_env, pd) ==
    [k \in DOMAIN pd |-> LuaToPy(updated_env[k])]

\* Lines 78-80.
ChoiceBools(updated_env, choice_map) ==
    [real_id \in { choice_map[s] : s \in DOMAIN choice_map } |->
        LuaToPy(updated_env[FlagName(
            CHOOSE s \in DOMAIN choice_map : choice_map[s] = real_id)])]

\* Lines 82-87.
Success(updated_env, pd, choice_map) ==
    [k |-> "ok",
     url |-> LuaToPy(updated_env["url"]),
     description |-> LuaToPy(updated_env["description"]),
     player_data |-> NewPlayerData(updated_env, pd),
     choices_visibility |-> ChoiceBools(updated_env, choice_map)]

-----------------------------------------------------------------------------
(* The editor application: texts, nodes, the generated script               *)

\* A text is a sequence of tokens: single characters, or whole lines of a
\* generated script.  An identifier is a text of characters, as in IdPool.
White == {" ", "\n"}

RECURSIVE LStrip(_)
LStrip(s) == IF s # <<>> /\ Head(s) \in White THEN LStrip(Tail(s)) ELSE s

RECURSIVE RStrip(_)
RStrip(s) ==
    IF s # <<>> /\ s[Len(s)] \in White THEN RStrip(SubSeq(s, 1, Len(s) - 1)) ELSE s

\* str.strip()
Strip(s) == RStrip(LStrip(s))

\* .replace('"', LEFT DOUBLE QUOTATION MARK).replace("'", PRIME)
ReplaceQuotes(s) ==
    [i \in 1..Len(s) |->
        CASE s[i] = "\"" -> "LDQUO"
          [] s[i] = "'" -> "PRIME"
          [] OTHER -> s[i]]

\* CTkTextbox.get("0.0", "end"): the content and the final newline Tk adds.
TextboxGet(content) == content \o <<"\n">>

\* dict.update(u) and the effect of setdefault for every key of u.
Update(d, u) ==
    [k \in DOMAIN d \cup DOMAIN u |-> IF k \in DOMAIN u THEN u[k] ELSE d[k]]
SetDefaults(d, u) ==
    [k \in DOMAIN d \cup DOMAIN u |-> IF k \in DOMAIN d THEN d[k] ELSE u[k]]

EmptyDict == [k \in {} |-> k]

\* str(uuid4()) of TkApp.py line 43.
StartUuid == <<"s", "-", "0">>

\* Identifiers str(uuid4()) can return in add_new_choice.
UuidPool == { <<"a", "-", "b">>, <<"c", "-", "d">> }

\* What the author types into the choice editor's ID entry (besides leaving
\* it as it is, or typing the id of another choice of the node).
TypedIds == { <<"c", "-", "d", " ">> }

\* node_id of the edit_node commands the application is sent.
OpenIds == { <<"s">> }

\* What the author types as starting node id in the metadata form.
StartEntries == { <<"1">> }

\* node_id of the calls of remove_story_node: the node being edited, and a
\* node a choice points at.
RemovedIds == OpenIds \cup { <<"a", "-", "b">> }

\* The node every first reference creates (TkApp.py lines 238-244, choice.py
\* lines 140-146, main_menu.py lines 221-227).
NewNode(id) ==
    [id |-> id, description |-> <<>>, script |-> <<>>, choices |-> <<>>,
     metadata |-> EmptyDict]

\* The choice add_new_choice appends.
NewChoice(new_id, parent) ==
    [emoji |-> <<>>, id |-> new_id, text |-> <<>>, script |-> <<>>,
     parent |-> parent]

\* updated_choice of Choice._on_save; the emoji and text entries are left empty.
UpdatedChoice(new_id) ==
    [id |-> new_id, emoji |-> Strip(<<>>),
     text |-> ReplaceQuotes(Strip(TextboxGet(<<>>))), script |-> <<>>]

\* Variant: hyphens dropped instead of replaced.
LuaSafeIdDropped(choice_id) == SelectSeq(choice_id, LAMBDA ch : ch # "-")

\* choice_id.replace('-', '_') of build_frame, line 64.
LuaSafeId(choice_id) ==
    [i \in 1..Len(choice_id) |-> IF choice_id[i] = "-" THEN "_" ELSE choice_id[i]]

\* Lines 61-65: one line 'choice_<lua_safe_id> = true' per choice.
RECURSIVE TemplateFlagLines(_)
TemplateFlagLines(choices) ==
    IF choices = <<>> THEN <<>>
    ELSE LET choice_id == Get(Head(choices), "id", <<"u", "n", "k", "n", "o", "w", "n">>)
         IN <<"choice_" \o Join(LuaSafeId(choice_id)) \o " = true", "\n">>
                \o TemplateFlagLines(Tail(choices))

\* to_lua_table on the choice list: keys in the dict's insertion order,
\* strings in long brackets.
KeyOrder(choice) ==
    IF "parent" \in DOMAIN choice
    THEN <<"emoji", "id", "text", "script", "parent">>
    ELSE <<"id", "emoji", "text", "script">>

RECURSIVE JoinWith(_, _)
JoinWith(sep, items) ==
    IF items = <<>> THEN ""
    ELSE IF Len(items) = 1 THEN items[1]
    ELSE items[1] \o sep \o JoinWith(sep, Tail(items))

ToLuaTable(choices) ==
    LET item(c) ==
            "{" \o JoinWith(", ", [j \in 1..Len(KeyOrder(c)) |->
                     KeyOrder(c)[j] \o " = [[" \o Join(c[KeyOrder(c)[j]]) \o "]]"])
                \o "}"
    IN "{" \o JoinWith(", ", [i \in 1..Len(choices) |-> item(choices[i])]) \o "}"

TemplateHead == 7    \* tokens of the generated script before the flag lines
TemplateTail == 6    \* tokens after them

\* Lines 51-69 of build_frame: the script generated from the node.
GenerateScript(node) ==
    LET url == Get(node, "url", <<>>)
        description == Get(node, "description", <<>>)
        choices == Get(node, "choices", <<>>)
    IN <<"url = \"" \o Join(url) \o "\"", "\n",
         "description = [[" \o Join(description) \o "]]", "\n", "\n",
         "-- choice_{choice_id} = true <- true: enabled; false: disabled", "\n">>
       \o TemplateFlagLines(choices)
       \o <<"\n", "choices = " \o ToLuaTable(choices), "\n", "\n",
            "-- The values above will auto update after saving --", "\n">>

\* ---- The emoji schema, src/emojiSchema.py.  A text is a sequence of
\* characters; a dict is the sequence of its items in insertion order.

Arrow == <<"-", ">">>
NewLine == <<"\n">>

\* The schema the class starts with (line 6); FLAG_A..FLAG_D stand for the
\* regional-indicator characters.
DefaultSchema ==
    <<"A", " ", "-", ">", " ", "FLAG_A", "\n",
      "B", " ", "-", ">", " ", "FLAG_B", "\n",
      "C", " ", "-", ">", " ", "FLAG_C", "\n",
      "D", " ", "-", ">", " ", "FLAG_D">>

\* Position of the first occurrence of sep in s, 0 if there is none.
FindSep(s, sep) ==
    LET hits == { i \in 1..(Len(s) - Len(sep) + 1) :
                     SubSeq(s, i, i + Len(sep) - 1) = sep }
    IN IF hits = {} THEN 0 ELSE CHOOSE i \in hits : \A j \in hits : i <= j

\* str.split(sep): the pieces between the occurrences of sep, left to right.
RECURSIVE SplitOn(_, _)
SplitOn(s, sep) ==
    LET i == FindSep(s, sep)
    IN IF i = 0 THEN <<s>>
       ELSE <<SubSeq(s, 1, i - 1)>> \o SplitOn(SubSeq(s, i + Len(sep), Len(s)), sep)

Item(variable, emoji) == [variable |-> variable, emoji |-> emoji]

DictKeys(d) == { d[i].variable : i \in DOMAIN d }
DictItems(d) == { <<d[i].variable, d[i].emoji>> : i \in DOMAIN d }

\* json_obj[variable] = emoji: a key the dict has keeps its place.
DictSet(d, variable, emoji) ==
    IF variable \in DictKeys(d)
    THEN [i \in DOMAIN d |->
            IF d[i].variable = variable THEN Item(variable, emoji) ELSE d[i]]
    ELSE Append(d, Item(variable, emoji))

\* del json_obj[variable]
DictDel(d, variable) == SelectSeq(d, LAMBDA it : it.variable # variable)

\* json_obj.get(variable): the emoji, or None.
Found(emoji) == [k |-> "text", text |-> emoji]
DictGet(d, variable) ==
    IF variable \in DictKeys(d)
    THEN Found((CHOOSE it \in { d[i] : i \in DOMAIN d } : it.variable = variable).emoji)
    ELSE None

\* The loop of text_to_json, lines 17-21, over the lines still to read.
RECURSIVE ParseLines(_, _)
ParseLines(lines, json_obj) ==
    IF lines = <<>> THEN json_obj
    ELSE LET split == SplitOn(Head(lines), Arrow)
             parts == [i \in DOMAIN split |-> Strip(split[i])]
         IN ParseLines(Tail(lines),
                IF Len(parts) = 2 THEN DictSet(json_obj, parts[1], parts[2])
                ELSE json_obj)

\* EmojiSchema.text_to_json, lines 9-23.
TextToJson(text_schema) ==
    LET raw == SplitOn(text_schema, NewLine)
        stripped == [i \in DOMAIN raw |-> Strip(raw[i])]
        lines == SelectSeq(stripped, LAMBDA line : line # <<>>)
    IN ParseLines(lines, <<>>)

\* EmojiSchema.json_to_text, lines 25-30.
RECURSIVE JoinLines(_)
JoinLines(lines) ==
    IF lines = <<>> THEN <<>>
    ELSE IF Len(lines) = 1 THEN Head(lines)
    ELSE Head(lines) \o NewLine \o JoinLines(Tail(lines))

\* Variant: the lines without the arrow.
JsonToTextBare(json_obj) ==
    JoinLines([i \in DOMAIN json_obj |->
                  json_obj[i].variable \o <<" ">> \o json_obj[i].emoji])

JsonToText(json_obj) ==
    JoinLines([i \in DOMAIN json_obj |->
                  json_obj[i].variable \o <<" ">> \o Arrow \o <<" ">>
                      \o json_obj[i].emoji])

\* EmojiSchema.set_mapping, lines 48-52: the new schema text.
SetMappingOf(schema, variable, emoji) ==
    JsonToText(DictSet(TextToJson(schema), variable, emoji))

\* EmojiSchema.remove_mapping, lines 54-59.
RemoveMappingOf(schema, variable) ==
    IF variable \in DictKeys(TextToJson(schema))
    THEN JsonToText(DictDel(TextToJson(schema), variable))
    ELSE schema

\* EmojiSchema.get_emoji, lines 61-64.
GetEmoji(schema, variable) == DictGet(TextToJson(schema), variable)

\* current_node_data is a reference: to the node the story map holds under
\* id, or to a dict the story map does not hold.
Ref(id) == [kind |-> "ref", id |-> id]
Own(node) == [kind |-> "own", node |-> node]

\* CYOAMakerApplication.__init__, lines 43-48 and 63.
AppInit ==
    /\ story_map = EmptyDict
    /\ current_node_data = Own(EmptyDict)
    /\ current_view = "main_menu"
    /\ choice_original_id = <<>>
    /\ player_data = [StartID |-> StartUuid, currentID |-> StartUuid]
    /\ metadata = [start |-> <<>>]
    /\ lastOp = [op |-> "init", id |-> <<>>]
    /\ current_schema = DefaultSchema

-----------------------------------------------------------------------------
(* The processes: the visualizer's and the editors' state as constructed    *)

MaxCommands == 2     \* commands the visualizer writes in one run of the model

\* The editor processes that can be started.
EditorPids == {1, 2}

\* editor_process = None, cytor.py line 21.
NoProcess == 0

\* A file: absent, opened for writing with nothing written yet, or holding
\* one pickled object.
NoFile == [k |-> "nofile"]
EmptyFile == [k |-> "empty"]
Pickled(data) == [k |-> "pickle", data |-> data]

\* The command_data of send_edit_node_command, lines 259-262, and of
\* send_save_command, line 273; NoCmd where there is none.
NoCmd == [command |-> "(none)"]
EditNodeCommand(node_id) == [command |-> "edit_node", node_id |-> node_id]
SaveCommand == [command |-> "Save"]

NotWriting == [cmd |-> NoCmd, unlinked |-> FALSE]

\* An editor process before it is started, and as __init__ leaves it.
NewApp == [sm |-> EmptyDict, cur |-> Own(EmptyDict), view |-> "main_menu",
           orig |-> <<>>]
Unstarted ==
    [state |-> "unstarted", running |-> FALSE, quit |-> FALSE, pc |-> "none",
     cmd |-> NoCmd, err |-> FALSE, read |-> FALSE, after |-> <<>>,
     app |-> NewApp, start_id |-> StartUuid, acted |-> <<>>]
Started ==
    [Unstarted EXCEPT !.state = "mainloop", !.running = TRUE, !.pc = "head"]

Alive(p) == procs[p].state \in {"mainloop", "joining"}

IpcInit ==
    /\ editor_process = NoProcess
    /\ procs = [p \in EditorPids |-> Unstarted]
    /\ command_file = NoFile
    /\ shared_data_file = NoFile
    /\ writing = NotWriting
    /\ sent = <<>>

-----------------------------------------------------------------------------
(* execute as a whole *)

\* Variant: every failure printed as the bare message.
PrintedBare(w) == IF w.success = "true" THEN NoLog ELSE w.text

\* Lines 59-67: what is printed.  A raise of the wrapper is caught and
\* printed as a crash; a false status prints the wrapper's message.
Printed(w) ==
    CASE w.success = "raise" -> [prefix |-> CrashPrefix, msg |-> w.text.msg]
      [] w.success = "false" -> w.text
      [] w.success = "true" -> NoLog

\* Variant: extraction without the check of the status.
ReturnedUnchecked(w, pd, choice_map) == Success(w.st.env, pd, choice_map)

\* Lines 59-87: what is returned.
Returned(w, pd, choice_map) ==
    IF w.success = "true" THEN Success(w.st.env, pd, choice_map) ELSE None

\* What the caller passed as user_script, as far as the properties need it.
FactsOf(user_script) ==
    [text |-> user_script.text,
     compiles |-> user_script.text /\ Compiles(user_script.body),
     usesOuter |-> \E i \in 1..Len(user_script.body) :
                      /\ user_script.body[i].op = "open"
                      /\ user_script.body[i].sym \in OuterOnly]

\* Everything one call of execute decides, from the state it starts in.
Outcome(user_script, node, pd, libs0, opened0) ==
    LET b == BuildEnv(node, pd) IN
    IF b.err # "none"
    THEN [ret |-> NoReturn, raised |-> b.err, log |-> NoLog,
          envStart |-> b.env, choiceMap |-> b.map, success |-> "unset",
          envAfter |-> b.env, written |-> {}, ran |-> 0,
          libs |-> libs0, opened |-> opened0, node |-> node, pc |-> "idle"]
    ELSE LET w == SafeWrapper(b.env, user_script, libs0, opened0, node) IN
         IF w.success = "never"
         THEN [ret |-> NoReturn, raised |-> "none", log |-> NoLog,
               envStart |-> b.env, choiceMap |-> b.map, success |-> "unset",
               envAfter |-> w.st.env, written |-> w.st.written,
               ran |-> w.st.ran, libs |-> w.st.libs, opened |-> w.st.opened,
               node |-> w.st.node, pc |-> "loop_test"]
         ELSE [ret |-> Returned(w, pd, b.map),
               raised |-> "none",
               log |-> Printed(w),
               envStart |-> b.env, choiceMap |-> b.map, success |-> w.success,
               envAfter |-> w.st.env, written |-> w.st.written,
               ran |-> w.st.ran, libs |-> w.st.libs, opened |-> w.st.opened,
               node |-> w.st.node, pc |-> "idle"]

\* Names bound when the wrapper returned that execute had not injected.
NewNames(o) == { n \in Names : o.envAfter[n] # Nil /\ o.envStart[n] = Nil }

\* One call of execute by the thread that owns the sandbox; the thread can
\* call again only after the previous call came back.
Execute(user_script) ==
    \E o \in {Outcome(user_script, curNode, playerData, libs, opened)} :
    /\ pc = "idle"
    /\ pc' = o.pc
    /\ curNode' = o.node
    /\ called' = TRUE
    /\ scriptFacts' = FactsOf(user_script)
    /\ ret' = o.ret
    /\ raised' = o.raised
    /\ log' = o.log
    /\ envStart' = o.envStart
    /\ choiceMap' = o.choiceMap
    /\ success' = o.success
    /\ envAfter' = o.envAfter
    /\ written' = o.written
    /\ ran' = o.ran
    /\ libs' = o.libs
    /\ opened' = o.opened
    /\ defined' = defined \cup NewNames(o)
    /\ UNCHANGED playerData
    /\ UNCHANGED appVars
    /\ UNCHANGED <<current_schema, ipcVars>>

\* One more round of 'while true do end' inside pcall: the test, then the
\* jump back.  Nothing in lines 47-57 (no hook, no limit) leads out of it.
Spin ==
    /\ pc \in {"loop_test", "loop_body"}
    /\ pc' = IF pc = "loop_test" THEN "loop_body" ELSE "loop_test"
    /\ UNCHANGED <<curNode, playerData, libs, opened, defined, called,
                   scriptFacts, ret, raised, log, envStart, choiceMap,
                   success, envAfter, written, ran>>
    /\ UNCHANGED appVars
    /\ UNCHANGED <<current_schema, ipcVars>>

\* __init__: the caller's node and player data, a fresh runtime.
SandboxInit(node, pd) ==
    /\ curNode = node /\ playerData = pd
    /\ libs = [l \in LibNames |-> [f \in LibFields |-> Nil]]
    /\ opened = {}
    /\ defined = {}
    /\ called = FALSE
    /\ scriptFacts = FactsOf(NotText)
    /\ ret = NoReturn
    /\ raised = "none"
    /\ log = NoLog
    /\ envStart = EmptyEnv
    /\ choiceMap = NoMap
    /\ success = "unset"
    /\ envAfter = EmptyEnv
    /\ written = {}
    /\ ran = 0
    /\ pc = "idle"

\* A sandbox for one of the inputs; the editor application as constructed.
Init ==
    /\ \E in \in Inputs : SandboxInit(in.node, in.pd)
    /\ AppInit
    /\ IpcInit

Next == \E s \in Scripts : Execute(s)

Spec == Init /\ [][Next]_vars

\* The same sandbox driven with scripts that reach into the library tables.
NextIso == \E s \in IsoScripts : Execute(s)

SpecIso == Init /\ [][NextIso]_vars

\* The same sandbox driven with scripts that write through the choices table
\* and scripts that loop.
NextAdv == (\E s \in AdvScripts : Execute(s)) \/ Spin

SpecAdv == Init /\ [][NextAdv]_vars

\* The Lua interpreter keeps running the chunk it is in.
SpecAdvFair == SpecAdv /\ WF_vars(Spin)

-----------------------------------------------------------------------------
(* The editor application: operations                                       *)

SetKey(m, k, v) == [x \in DOMAIN m \cup {k} |-> IF x = k THEN v ELSE m[x]]
DelKey(m, k) == [x \in DOMAIN m \ {k} |-> m[x]]

\* The application's fields the operations below work on, as one record.
App == [sm |-> story_map, cur |-> current_node_data, view |-> current_view,
        orig |-> choice_original_id]

\* The dict current_node_data refers to, and an in-place change of it.
NodeOf(a) == IF a.cur.kind = "ref" THEN a.sm[a.cur.id] ELSE a.cur.node
PutNode(a, node) ==
    IF a.cur.kind = "ref" THEN [a EXCEPT !.sm[a.cur.id] = node]
    ELSE [a EXCEPT !.cur = Own(node)]

\* current_node_data once the map no longer holds the objects it held under
\* the keys in gone: the reference stays, to a dict that is now on its own.
Detach(a, gone) ==
    IF a.cur.kind = "ref" /\ a.cur.id \in gone THEN Own(a.sm[a.cur.id])
    ELSE a.cur

\* StoryNode.build_frame, lines 38-92.
BuildFrame(a, node_id) ==
    LET sm1 == IF node_id \in DOMAIN a.sm THEN a.sm
               ELSE SetKey(a.sm, node_id,
                        [id |-> node_id, choices |-> <<>>, description |-> <<>>,
                         url |-> <<>>, script |-> <<>>])
        node == sm1[node_id]
        scr == GenerateScript(node)
        node1 == SetDefaults(Update(node, [script |-> scr]),
                     [choices |-> <<>>, description |-> <<>>, url |-> <<>>,
                      script |-> scr, ending |-> <<"None">>])
    IN [a EXCEPT !.sm = SetKey(sm1, node_id, node1),
                 !.cur = Ref(node_id),
                 !.view = "node_editor"]

\* CYOAMakerApplication._show_story_node_editor, lines 229-260; node_id <<>>
\* stands for None and for the empty string.
ShowStoryNodeEditor(a, node_id, start_id) ==
    LET target_node_id == IF node_id # <<>> THEN node_id ELSE start_id
        sm1 == IF target_node_id \in DOMAIN a.sm THEN a.sm
               ELSE SetKey(a.sm, target_node_id, NewNode(target_node_id))
        sm2 == IF "id" \in DOMAIN sm1[target_node_id] THEN sm1
               ELSE [sm1 EXCEPT ![target_node_id] = Update(@, [id |-> target_node_id])]
        cur_id == Get(NodeOf(a), "id", <<>>)
        cur1 == IF node_id # <<>> /\ node_id # cur_id
                THEN Own(EmptyDict) ELSE a.cur
    IN BuildFrame([a EXCEPT !.sm = sm2, !.cur = cur1], target_node_id)

\* What the node form holds when Save is pressed: the displayed values left
\* as they are, or the author's own.
AuthorScript == <<"energy = energy + 10">>
AuthorForm ==
    [description |-> <<"'", "d", " ">>, url |-> <<"u">>,
     script |-> AuthorScript, ending |-> <<"Good Ending">>]
DisplayedForm(node) ==
    [description |-> node["description"], url |-> node["url"],
     script |-> node["script"], ending |-> node["ending"]]
NodeForms ==
    IF current_view = "node_editor"
    THEN { AuthorForm, DisplayedForm(NodeOf(App)) }
    ELSE {}

\* StoryNode.save_options, lines 248-258.
SaveOptionsOf(a, form, start_id) ==
    LET node == Update(NodeOf(a),
                   [description |-> ReplaceQuotes(Strip(TextboxGet(form.description))),
                    url |-> Strip(TextboxGet(form.url)),
                    script |-> Strip(TextboxGet(form.script)),
                    ending |-> Strip(form.ending)])
        a1 == [a EXCEPT !.sm = SetKey(a.sm, node["id"], node),
                        !.cur = Ref(node["id"])]
    IN ShowStoryNodeEditor(a1, node["id"], start_id)

\* list.remove(x): the first element equal to x goes.
RECURSIVE ListRemove(_, _)
ListRemove(list, x) ==
    IF list = <<>> THEN <<>>
    ELSE IF Head(list) = x THEN Tail(list)
    ELSE <<Head(list)>> \o ListRemove(Tail(list), x)

\* _find_choice_index: the first position with that id, 0 for None.
FindChoiceIndex(choices, choice_id) ==
    IF \E i \in 1..Len(choices) : choices[i]["id"] = choice_id
    THEN CHOOSE i \in 1..Len(choices) :
            /\ choices[i]["id"] = choice_id
            /\ \A j \in 1..(i - 1) : choices[j]["id"] # choice_id
    ELSE 0

\* StoryNode.add_new_choice without argument, lines 221-236; new_id is what
\* the uuid4 loop ends with.
AddNewChoiceOf(a, new_id) ==
    LET node == NodeOf(a)
        new_choice == NewChoice(new_id, node["id"])
        index == FindChoiceIndex(node["choices"], new_id)
    IN PutNode(a, [node EXCEPT !["choices"] =
                      IF index # 0 THEN [@ EXCEPT ![index] = new_choice]
                      ELSE Append(@, new_choice)])

\* Variant: the node the removed choice points at is dropped with it.
RemoveChoiceCascade(a, choice) ==
    LET node == NodeOf(a)
        a1 == PutNode(a, [node EXCEPT !["choices"] = ListRemove(@, choice)])
    IN IF choice["id"] \in DOMAIN a1.sm /\ choice["id"] # node["id"]
       THEN [a1 EXCEPT !.sm = DelKey(a1.sm, choice["id"])]
       ELSE a1

\* StoryNode.remove_choice, lines 238-240.
RemoveChoiceOf(a, choice) ==
    LET node == NodeOf(a) IN
    PutNode(a, [node EXCEPT !["choices"] = ListRemove(@, choice)])

\* Variant: the choice stored, no node created for its id.
OnSaveOfNoNode(a, typed, start_id) ==
    LET new_id == Strip(typed)
        updated_choice == UpdatedChoice(new_id)
        node == NodeOf(a)
        index == FindChoiceIndex(node["choices"], a.orig)
        choices1 == IF new_id = a.orig
                    THEN IF index # 0
                         THEN [node["choices"] EXCEPT ![index] = updated_choice]
                         ELSE node["choices"]
                    ELSE Append(node["choices"], updated_choice)
        a1 == PutNode(a, [node EXCEPT !["choices"] = choices1])
    IN ShowStoryNodeEditor(a1, node["id"], start_id)

\* Choice._on_save, lines 122-149; typed is the content of the ID entry.
OnSaveOf(a, typed, start_id) ==
    LET new_id == Strip(typed)
        updated_choice == UpdatedChoice(new_id)
        node == NodeOf(a)
        index == FindChoiceIndex(node["choices"], a.orig)
        choices1 == IF new_id = a.orig
                    THEN IF index # 0
                         THEN [node["choices"] EXCEPT ![index] = updated_choice]
                         ELSE node["choices"]
                    ELSE Append(node["choices"], updated_choice)
        a1 == PutNode(a, [node EXCEPT !["choices"] = choices1])
        a2 == IF new_id \in DOMAIN a1.sm THEN a1
              ELSE [a1 EXCEPT !.sm = SetKey(a1.sm, new_id, NewNode(new_id))]
    IN ShowStoryNodeEditor(a2, node["id"], start_id)

\* The operation's result stored back into the application's fields.
Commit(a) ==
    /\ story_map' = a.sm
    /\ current_node_data' = a.cur
    /\ current_view' = a.view
    /\ choice_original_id' = a.orig

\* An edit_node command carried out: _check_for_external_commands_async,
\* TkApp.py lines 101-105, and the _show_story_node_editor it schedules.
ExternalEditNode(node_id) ==
    \E a \in {ShowStoryNodeEditor(App, node_id, player_data["StartID"])} :
    /\ Commit(a)
    /\ lastOp' = [op |-> "edit_node", id |-> node_id]
    /\ UNCHANGED <<player_data, metadata>>
    /\ UNCHANGED sandboxVars
    /\ UNCHANGED <<current_schema, ipcVars>>

\* The node editor's Save button.
SaveOptions(form) ==
    /\ current_view = "node_editor"
    /\ \E a \in {SaveOptionsOf(App, form, player_data["StartID"])} : Commit(a)
    /\ lastOp' = [op |-> "save_options", id |-> NodeOf(App)["id"]]
    /\ UNCHANGED <<player_data, metadata>>
    /\ UNCHANGED sandboxVars
    /\ UNCHANGED <<current_schema, ipcVars>>

\* The node editor's Add Choice button.  The uuid4 loop ends with an
\* identifier no choice of the node has.
AddNewChoice(new_id) ==
    /\ current_view = "node_editor"
    /\ Len(NodeOf(App)["choices"]) < MaxEdChoices
    /\ \A i \in 1..Len(NodeOf(App)["choices"]) :
          NodeOf(App)["choices"][i]["id"] # new_id
    /\ \E a \in {AddNewChoiceOf(App, new_id)} : Commit(a)
    /\ lastOp' = [op |-> "add_new_choice", id |-> new_id]
    /\ UNCHANGED <<player_data, metadata>>
    /\ UNCHANGED sandboxVars
    /\ UNCHANGED <<current_schema, ipcVars>>

\* The X button of the i-th choice row.
RemoveChoice(i) ==
    /\ current_view = "node_editor"
    /\ i \in 1..Len(NodeOf(App)["choices"])
    /\ \E a \in {RemoveChoiceOf(App, NodeOf(App)["choices"][i])} : Commit(a)
    /\ lastOp' = [op |-> "remove_choice", id |-> NodeOf(App)["choices"][i]["id"]]
    /\ UNCHANGED <<player_data, metadata>>
    /\ UNCHANGED sandboxVars
    /\ UNCHANGED <<current_schema, ipcVars>>

\* The ... button of the i-th choice row: _open_choice_details, lines
\* 211-219, then show_choice_editor and Choice.build_frame.
OpenChoiceDetails(i, form) ==
    /\ current_view = "node_editor"
    /\ i \in 1..Len(NodeOf(App)["choices"])
    /\ \E a \in {SaveOptionsOf(App, form, player_data["StartID"])} :
          Commit([a EXCEPT !.view = "choice_editor",
                           !.orig = NodeOf(App)["choices"][i]["id"]])
    /\ lastOp' = [op |-> "open_choice_details",
                  id |-> NodeOf(App)["choices"][i]["id"]]
    /\ UNCHANGED <<player_data, metadata>>
    /\ UNCHANGED sandboxVars
    /\ UNCHANGED <<current_schema, ipcVars>>

\* The choice editor's Save button.
OnSave(typed) ==
    /\ current_view = "choice_editor"
    /\ Strip(typed) = choice_original_id
          \/ Len(NodeOf(App)["choices"]) < MaxEdChoices
    /\ \E a \in {OnSaveOf(App, typed, player_data["StartID"])} : Commit(a)
    /\ lastOp' = [op |-> "on_save", id |-> Strip(typed)]
    /\ UNCHANGED <<player_data, metadata>>
    /\ UNCHANGED sandboxVars
    /\ UNCHANGED <<current_schema, ipcVars>>

\* CYOAMakerApplication.remove_story_node, lines 284-288.
RemoveStoryNode(node_id) ==
    /\ node_id \in DOMAIN story_map
    /\ story_map' = DelKey(story_map, node_id)
    /\ current_node_data' = Detach(App, {node_id})
    /\ lastOp' = [op |-> "remove_story_node", id |-> node_id]
    /\ UNCHANGED <<current_view, choice_original_id, player_data, metadata>>
    /\ UNCHANGED sandboxVars
    /\ UNCHANGED <<current_schema, ipcVars>>

\* A project file as the editor saves it: a start node with one saved
\* choice, and the node that choice created.
ProjectFile ==
    LET s == <<"s">>
        t == <<"a", "-", "b">>
        sm == SetKey(SetKey(EmptyDict, s,
                        [NewNode(s) EXCEPT !["choices"] = <<UpdatedChoice(t)>>]),
                     t, NewNode(t))
    IN [metadata |-> [start |-> s],
        playerdata |-> [StartID |-> s, currentID |-> s],
        emoji_schema |-> TextToJson(DefaultSchema),
        storymap |-> BuildFrame([sm |-> sm, cur |-> Own(EmptyDict),
                                 view |-> "main_menu", orig |-> <<>>], s).sm]

Projects == { ProjectFile }

\* The main menu's Load Project button with a file chosen:
\* _load_project_from_dialog, lines 290-310.
LoadProject(project) ==
    /\ current_view = "main_menu"
    /\ metadata' = project.metadata
    /\ player_data' = project.playerdata
    /\ story_map' = project.storymap
    /\ current_node_data' = Detach(App, DOMAIN story_map)
    /\ current_view' = "project_menu"
    /\ current_schema' = JsonToText(project.emoji_schema)
    /\ lastOp' = [op |-> "load_project", id |-> <<>>]
    /\ UNCHANGED choice_original_id
    /\ UNCHANGED sandboxVars
    /\ UNCHANGED ipcVars

\* The main menu's New Project button.
ShowProjectMenu ==
    /\ current_view = "main_menu"
    /\ current_view' = "project_menu"
    /\ lastOp' = [op |-> "show_project_menu", id |-> <<>>]
    /\ UNCHANGED <<story_map, current_node_data, choice_original_id,
                   player_data, metadata>>
    /\ UNCHANGED sandboxVars
    /\ UNCHANGED <<current_schema, ipcVars>>

\* The metadata form's Back button.
ShowMainMenu ==
    /\ current_view = "project_menu"
    /\ current_view' = "main_menu"
    /\ lastOp' = [op |-> "show_main_menu", id |-> <<>>]
    /\ UNCHANGED <<story_map, current_node_data, choice_original_id,
                   player_data, metadata>>
    /\ UNCHANGED sandboxVars
    /\ UNCHANGED <<current_schema, ipcVars>>

\* MainMenu._on_save, main_menu.py lines 215-227: the story map it leaves.
MainMenuOnSaveKept(sm, node_id) == sm

MainMenuOnSave(sm, node_id) ==
    IF node_id \in DOMAIN sm THEN sm ELSE SetKey(sm, node_id, NewNode(node_id))

\* The entry the metadata form shows for the starting node, line 72.
ShownStart == IF metadata.start # <<>> THEN metadata.start ELSE <<"1">>

\* The metadata form's Save button: on_save, main_menu.py lines 104-115,
\* and MainMenu._on_save, lines 215-227.
SaveMetadata(start) ==
    /\ current_view = "project_menu"
    /\ metadata' = [metadata EXCEPT !.start = start]
    /\ player_data' = [StartID |-> start, currentID |-> start]
    /\ story_map' = MainMenuOnSave(story_map, start)
    /\ lastOp' = [op |-> "save_metadata", id |-> start]
    /\ UNCHANGED <<current_node_data, current_view, choice_original_id>>
    /\ UNCHANGED sandboxVars
    /\ UNCHANGED <<current_schema, ipcVars>>

\* The identifiers the author can leave in the choice editor's ID entry.
IdEntries ==
    IF current_view = "choice_editor"
    THEN TypedIds \cup {choice_original_id}
            \cup { NodeOf(App)["choices"][i]["id"] :
                      i \in 1..Len(NodeOf(App)["choices"]) }
    ELSE {}

\* The application as constructed; no sandbox call is part of editing.
InitEd ==
    /\ SandboxInit([description |-> PyStr("d")], [energy |-> PyInt(20)])
    /\ AppInit
    /\ IpcInit

NextEd ==
    \/ \E node_id \in OpenIds : ExternalEditNode(node_id)
    \/ \E form \in NodeForms : SaveOptions(form)
    \/ \E new_id \in UuidPool : AddNewChoice(new_id)
    \/ \E i \in 1..MaxEdChoices : RemoveChoice(i)
    \/ \E i \in 1..MaxEdChoices : \E form \in NodeForms :
          OpenChoiceDetails(i, form)
    \/ \E typed \in IdEntries : OnSave(typed)
    \/ \E node_id \in RemovedIds : RemoveStoryNode(node_id)
    \/ \E project \in Projects : LoadProject(project)
    \/ ShowProjectMenu
    \/ ShowMainMenu
    \/ \E start \in StartEntries \cup {ShownStart} : SaveMetadata(start)

SpecEd == InitEd /\ [][NextEd]_vars

-----------------------------------------------------------------------------
(* The visualizer, the editor processes and the files between them          *)

\* What the steps of the visualizer and of the editor processes leave alone.
restVars == <<sandboxVars, appVars, current_schema>>

\* ---- the visualizer, src/cytor.py ----

\* start_editor_process, lines 212-226, when it starts a process and
\* returns True; otherwise it returns False and changes nothing.
StartEditorProcess ==
    /\ IF editor_process = NoProcess THEN TRUE ELSE ~Alive(editor_process)
    /\ \E p \in EditorPids :
          /\ procs[p].state = "unstarted"
          /\ procs' = [procs EXCEPT ![p] = Started]
          /\ editor_process' = p
    /\ UNCHANGED <<command_file, shared_data_file, writing, sent>>
    /\ UNCHANGED restVars

\* One more run of the script: the page is drawn again for a click or for
\* the auto-refresh of lines 424-426, and line 21 is executed again.
ScriptRerun ==
    /\ editor_process # NoProcess
    /\ editor_process' = NoProcess
    /\ UNCHANGED <<procs, command_file, shared_data_file, writing, sent>>
    /\ UNCHANGED restVars

\* The commands the page offers: Save, and Edit for a key of the story map
\* read from the shared-data file (lines 314-326).
Offered ==
    {SaveCommand} \cup
    (IF shared_data_file.k = "pickle"
     THEN { EditNodeCommand(id) :
               id \in { k \in DOMAIN shared_data_file.data.storymap : k # <<>> } }
     ELSE {})

\* send_command_to_editor, lines 240-241: the timestamp, and open(..., 'wb')
\* leaves an empty file.
SendCommandOpen(command_data) ==
    /\ writing = NotWriting
    /\ Len(sent) < MaxCommands
    /\ sent' = Append(sent, [timestamp |-> Len(sent) + 1,
                             running |-> \E p \in EditorPids : Alive(p)])
    /\ writing' = [cmd |-> SetKey(command_data, "timestamp", Len(sent) + 1),
                   unlinked |-> FALSE]
    /\ command_file' = EmptyFile
    /\ UNCHANGED <<editor_process, procs, shared_data_file>>
    /\ UNCHANGED restVars

\* Line 242 and the end of the with block: the pickle reaches the file that
\* was opened, which is no longer cyoa_commands.pkl if that was removed.
SendCommandDump ==
    /\ writing # NotWriting
    /\ command_file' = IF writing.unlinked THEN command_file
                       ELSE Pickled(writing.cmd)
    /\ writing' = NotWriting
    /\ UNCHANGED <<editor_process, procs, shared_data_file, sent>>
    /\ UNCHANGED restVars

\* ---- the editor's background thread, src/TkApp.py lines 71-125 ----

\* os.remove(command_file_path) of a file that exists.
Removed ==
    /\ command_file' = NoFile
    /\ writing' = IF writing = NotWriting THEN writing
                  ELSE [writing EXCEPT !.unlinked = TRUE]

\* One step of the thread of process p: its record changes to q.
BgStep(p, from, q) ==
    /\ Alive(p)
    /\ procs[p].pc = from
    /\ procs' = [procs EXCEPT ![p] = q]
    /\ UNCHANGED <<editor_process, sent>>
    /\ UNCHANGED restVars

\* Line 74: while self._is_save_thread_running.
LoopTestForever(p) ==
    /\ BgStep(p, "head", [procs[p] EXCEPT !.pc = "save"])
    /\ UNCHANGED <<command_file, shared_data_file, writing>>

LoopTest(p) ==
    /\ BgStep(p, "head",
          [procs[p] EXCEPT !.pc = IF procs[p].running THEN "save" ELSE "done"])
    /\ UNCHANGED <<command_file, shared_data_file, writing>>

\* _save_shared_data_async, lines 152-171, as far as the story map goes.
SharedData(p) == Pickled([storymap |-> procs[p].app.sm])

\* Line 77.
SaveSharedData(p) ==
    /\ BgStep(p, "save", [procs[p] EXCEPT !.pc = "check"])
    /\ shared_data_file' = SharedData(p)
    /\ UNCHANGED <<command_file, writing>>

\* _check_for_external_commands_async up to its first return, lines 87-91.
CheckForExternalCommands(p) ==
    /\ BgStep(p, "check",
          [procs[p] EXCEPT !.pc = IF command_file = NoFile THEN "sleep" ELSE "read",
                           !.cmd = NoCmd, !.err = FALSE, !.read = FALSE])
    /\ shared_data_file' = SharedData(p)
    /\ UNCHANGED <<command_file, writing>>

\* Lines 96-97: open and pickle.load, which raise for a file that is gone
\* or empty.
LoadCommand(p) ==
    /\ BgStep(p, "read",
          IF command_file.k = "pickle"
          THEN [procs[p] EXCEPT !.pc = "handle", !.cmd = command_file.data,
                                !.read = TRUE]
          ELSE [procs[p] EXCEPT !.pc = "cleanup", !.err = TRUE,
                                !.read = (command_file = EmptyFile)])
    /\ UNCHANGED <<command_file, shared_data_file, writing>>

\* _ensure_node_exists, lines 127-130: the story map it leaves.
EnsureNodeExists(sm, node_id) == sm

\* Lines 99-110 up to and including the call of line 104, or the Save
\* branch.
HandleCommand(p) ==
    LET q == procs[p]
        node_id == Get(q.cmd, "node_id", <<>>)
    IN /\ BgStep(p, "handle",
             IF q.cmd.command = "edit_node" /\ node_id # <<>>
             THEN [q EXCEPT !.pc = "ensured",
                            !.app.sm = EnsureNodeExists(q.app.sm, node_id)]
             ELSE IF q.cmd.command = "Save"
             THEN [q EXCEPT !.pc = "remove", !.quit = TRUE,
                            !.acted = Append(@, q.cmd.timestamp)]
             ELSE [q EXCEPT !.pc = "remove"])
       /\ UNCHANGED <<command_file, shared_data_file, writing>>

\* Line 105: root.after(0, ...).
ScheduleEditor(p) ==
    /\ BgStep(p, "ensured",
          [procs[p] EXCEPT !.pc = "remove",
                           !.after = Append(@, procs[p].cmd.node_id),
                           !.acted = Append(@, procs[p].cmd.timestamp)])
    /\ UNCHANGED <<command_file, shared_data_file, writing>>

\* Line 113, which raises when the file is gone.
RemoveCommandFileKept(p) ==
    /\ BgStep(p, "remove", [procs[p] EXCEPT !.pc = "sleep"])
    /\ UNCHANGED <<command_file, shared_data_file, writing>>

RemoveCommandFile(p) ==
    /\ BgStep(p, "remove",
          IF command_file = NoFile
          THEN [procs[p] EXCEPT !.pc = "cleanup", !.err = TRUE]
          ELSE [procs[p] EXCEPT !.pc = "sleep"])
    /\ IF command_file = NoFile THEN UNCHANGED <<command_file, writing>>
       ELSE Removed
    /\ UNCHANGED shared_data_file

\* Lines 115-117 and _cleanup_command_file, lines 119-125.
CleanupCommandFile(p) ==
    /\ BgStep(p, "cleanup", [procs[p] EXCEPT !.pc = "sleep"])
    /\ IF command_file = NoFile THEN UNCHANGED <<command_file, writing>>
       ELSE Removed
    /\ UNCHANGED shared_data_file

\* Line 81.
Sleep(p) ==
    /\ BgStep(p, "sleep", [procs[p] EXCEPT !.pc = "head"])
    /\ UNCHANGED <<command_file, shared_data_file, writing>>

\* ---- the editor's main thread ----

MainStep(p, q) ==
    /\ procs[p].state = "mainloop"
    /\ ~procs[p].quit
    /\ procs' = [procs EXCEPT ![p] = q]
    /\ UNCHANGED <<editor_process, command_file, shared_data_file, writing,
                   sent>>
    /\ UNCHANGED restVars

\* The callback of line 105, run by the Tk main loop.
RunAfter(p) ==
    /\ procs[p].after # <<>>
    /\ MainStep(p, [procs[p] EXCEPT
          !.after = Tail(@),
          !.app = ShowStoryNodeEditor(procs[p].app, Head(procs[p].after),
                                      procs[p].start_id)])

\* The main menu's New Project button in process p.
NewProject(p) ==
    /\ procs[p].app.view = "main_menu"
    /\ MainStep(p, [procs[p] EXCEPT !.app.view = "project_menu"])

\* The metadata form's Save button in process p.
MetadataSaved(p, start) ==
    /\ procs[p].app.view = "project_menu"
    /\ MainStep(p, [procs[p] EXCEPT !.app.sm = MainMenuOnSave(@, start),
                                    !.start_id = start])

\* The window is closed: handle_window_close, lines 327-329, as far as
\* cleanup_resources, lines 312-316, setting the flag and starting to join.
CleanupResources(p) ==
    /\ procs[p].running
    /\ MainStep(p, [procs[p] EXCEPT !.state = "joining", !.running = FALSE])

\* The process ends: join has returned or timed out and the window is
\* destroyed, or root.quit() of line 110 has ended the main loop.  A daemon
\* thread that is still running ends with it.
ProcessExit(p) ==
    /\ procs[p].state = "joining"
          \/ (procs[p].state = "mainloop" /\ procs[p].quit)
    /\ procs' = [procs EXCEPT ![p] =
          [@ EXCEPT !.state = "exited",
                    !.pc = IF @ = "done" THEN "done" ELSE "killed"]]
    /\ UNCHANGED <<editor_process, command_file, shared_data_file, writing,
                   sent>>
    /\ UNCHANGED restVars

InitIpc ==
    /\ SandboxInit([description |-> PyStr("d")], [energy |-> PyInt(20)])
    /\ AppInit
    /\ IpcInit

\* The visualizer across runs of its script and the editor processes it
\* starts, which may be alive together.  No story has been written: the page
\* offers Save only.
NextViz ==
    \/ StartEditorProcess
    \/ ScriptRerun
    \/ \E command_data \in Offered : SendCommandOpen(command_data)
    \/ SendCommandDump
    \/ \E p \in EditorPids :
          \/ LoopTest(p)
          \/ SaveSharedData(p)
          \/ CheckForExternalCommands(p)
          \/ LoadCommand(p)
          \/ HandleCommand(p)
          \/ RemoveCommandFile(p)
          \/ CleanupCommandFile(p)
          \/ Sleep(p)
          \/ CleanupResources(p)
          \/ ProcessExit(p)

SpecViz == InitIpc /\ [][NextViz]_vars

\* The visualizer within one run of its script, so that start_editor_process
\* finds the process it started: editors run one after the other, and their
\* authors write stories.
NextIpc ==
    \/ StartEditorProcess
    \/ \E command_data \in Offered : SendCommandOpen(command_data)
    \/ SendCommandDump
    \/ \E p \in EditorPids :
          \/ LoopTest(p)
          \/ SaveSharedData(p)
          \/ CheckForExternalCommands(p)
          \/ LoadCommand(p)
          \/ HandleCommand(p)
          \/ ScheduleEditor(p)
          \/ RemoveCommandFile(p)
          \/ CleanupCommandFile(p)
          \/ Sleep(p)
          \/ RunAfter(p)
          \/ NewProject(p)
          \/ \E start \in StartEntries : MetadataSaved(p, start)
          \/ CleanupResources(p)
          \/ ProcessExit(p)

SpecIpc == InitIpc /\ [][NextIpc]_vars

-----------------------------------------------------------------------------
(* The story graph the visualizer draws, src/cytor.py lines 46-209          *)

\* The elements of a set in the order a loop visits them.
RECURSIVE InOrder(_)
InOrder(S) ==
    IF S = {} THEN <<>>
    ELSE LET x == CHOOSE y \in S : TRUE IN <<x>> \o InOrder(S \ {x})

\* The identifiers of the choices of a list that have one: target_id of
\* lines 120-121 and 203-206.
RECURSIVE TargetIds(_)
TargetIds(choices) ==
    IF choices = <<>> THEN <<>>
    ELSE LET target_id == Get(Head(choices), "id", <<>>)
         IN (IF target_id # <<>> THEN <<target_id>> ELSE <<>>)
                \o TargetIds(Tail(choices))

\* Variant: the story map's keys only.
CollectKeysOnly(sm) == DOMAIN sm

\* _collect_all_node_references, lines 103-124.
CollectAllNodeReferences(sm) ==
    DOMAIN sm \cup
    UNION { { TargetIds(Get(sm[k], "choices", <<>>))[i] :
                 i \in 1..Len(TargetIds(Get(sm[k], "choices", <<>>))) } :
            k \in DOMAIN sm }

\* _add_existing_node, lines 143-168: the colour tells the number of choices.
AddExistingNode(node_id, node_data) ==
    LET choices == Get(node_data, "choices", <<>>)
    IN [name |-> node_id, missing |-> FALSE,
        fillcolor |-> IF Len(choices) = 0 THEN "lightcoral"
                      ELSE IF Len(choices) = 1 THEN "lightyellow"
                      ELSE "lightblue"]

\* _add_missing_node, lines 171-180.
AddMissingNode(node_id) ==
    [name |-> node_id, missing |-> TRUE, fillcolor |-> "lightgray"]

\* _add_nodes_to_graph, lines 127-140: the node statements, in loop order.
AddNodesToGraph(sm, all_node_ids) ==
    LET ids == InOrder(all_node_ids)
    IN [i \in DOMAIN ids |->
           IF ids[i] \in DOMAIN sm THEN AddExistingNode(ids[i], sm[ids[i]])
           ELSE AddMissingNode(ids[i])]

\* The label of an edge, line 208.
DisplayLabel(choice_text) ==
    IF choice_text = <<>> THEN <<"Choice">>
    ELSE SubSeq(choice_text, 1, IF Len(choice_text) < 17 THEN Len(choice_text) ELSE 17)

\* Lines 199-209 for the choices of one node.
RECURSIVE EdgesOf(_, _)
EdgesOf(node_id, choices) ==
    IF choices = <<>> THEN <<>>
    ELSE LET choice == Head(choices)
             target_id == Get(choice, "id", <<>>)
         IN (IF target_id # <<>>
             THEN <<[tail |-> node_id, head |-> target_id,
                     label |-> DisplayLabel(Get(choice, "text", <<>>))]>>
             ELSE <<>>)
                \o EdgesOf(node_id, Tail(choices))

\* _add_edges_to_graph, lines 183-209: the edge statements, in loop order.
RECURSIVE EdgesFrom(_, _)
EdgesFrom(keys, sm) ==
    IF keys = <<>> THEN <<>>
    ELSE EdgesOf(Head(keys), Get(sm[Head(keys)], "choices", <<>>))
            \o EdgesFrom(Tail(keys), sm)

AddEdgesToGraph(sm) == EdgesFrom(InOrder(DOMAIN sm), sm)

\* create_story_graph_visualization, lines 46-100: the statements of the
\* graph; the graph for an empty story map has none and carries a label.
EmptyGraph == [empty |-> TRUE, nodes |-> <<>>, edges |-> <<>>]
CreateStoryGraphVisualization(sm) ==
    IF DOMAIN sm = {} THEN EmptyGraph
    ELSE [empty |-> FALSE,
          nodes |-> AddNodesToGraph(sm, CollectAllNodeReferences(sm)),
          edges |-> AddEdgesToGraph(sm)]

\* Story maps as the editor leaves them: nodes under their own ids, each
\* with a list of saved choices, some of them saved with an empty id.
GraphKeys == { <<"1">>, <<"a", "-", "b">> }
GraphTargets == { <<"a", "-", "b">>, <<"c", "-", "d">>, <<>> }
GraphChoiceLists ==
    { [i \in DOMAIN ids |-> UpdatedChoice(ids[i])] :
          ids \in SeqsUpTo(GraphTargets, MaxChoices) }
GraphNodes(k) == { [NewNode(k) EXCEPT !["choices"] = cs] : cs \in GraphChoiceLists }
StoryMaps ==
    UNION { { [k \in keys |-> pick[k]] :
                 pick \in { f \in [keys -> UNION { GraphNodes(k) : k \in keys }] :
                               \A k \in keys : f[k]["id"] = k } } :
            keys \in SUBSET GraphKeys }

\* The editor with one of the story maps, and the visualizer drawing it.
InitGraph ==
    /\ SandboxInit([description |-> PyStr("d")], [energy |-> PyInt(20)])
    /\ \E sm \in StoryMaps : story_map = sm
    /\ current_node_data = Own(EmptyDict)
    /\ current_view = "main_menu"
    /\ choice_original_id = <<>>
    /\ player_data = [StartID |-> StartUuid, currentID |-> StartUuid]
    /\ metadata = [start |-> <<>>]
    /\ lastOp = [op |-> "init", id |-> <<>>]
    /\ current_schema = DefaultSchema
    /\ IpcInit

\* display_story_visualization, lines 332-348, with the story map the
\* editor shares: a graph for a story map with nodes, a notice for one
\* without; lastOp keeps the graph.
DisplayStoryVisualization ==
    /\ lastOp.op = "init"
    /\ lastOp' = IF DOMAIN story_map # {}
                 THEN [op |-> "create_story_graph_visualization", id |-> <<>>,
                       graph |-> CreateStoryGraphVisualization(story_map)]
                 ELSE [op |-> "info", id |-> <<>>]
    /\ UNCHANGED <<story_map, current_node_data, current_view,
                   choice_original_id, player_data, metadata>>
    /\ UNCHANGED sandboxVars
    /\ UNCHANGED <<current_schema, ipcVars>>

NextGraph == DisplayStoryVisualization

SpecGraph == InitGraph /\ [][NextGraph]_vars

-----------------------------------------------------------------------------
(* The emoji schema object and its methods, src/emojiSchema.py              *)

\* Variables and emojis the methods are called with: plain ones, one with a
\* leading blank, one holding an arrow, one ending in a line break.
SchemaVariables == { <<"A">>, <<"E">>, <<" ", "E">>, <<"E", "-", ">", "F">> }
SchemaEmojis == { <<"FLAG_E">>, <<"x", "\n">>, <<"x", "-", ">", "y">> }

\* Mappings a schema file holds: up to MaxMappings items with distinct
\* variables.
MaxMappings == 2
FileVariables == { <<"A">>, <<"E">>, <<" ", "E">> }
FileEmojis == { <<"FLAG_E">>, <<"x", "-", ">", "y">> }
SchemaFiles ==
    { d \in SeqsUpTo({ Item(v, e) : v \in FileVariables, e \in FileEmojis },
                     MaxMappings) :
         \A i, j \in DOMAIN d : d[i].variable = d[j].variable => i = j }

\* Texts the author leaves in the emoji editor's text area.
SchemaTexts ==
    { <<>>,
      <<" ", "A", "-", ">", "x", "\n", "\n", "E", "\n", "-", ">", "\n", "A", "-", ">">> }

\* What the schema steps leave alone.
notSchemaVars ==
    <<story_map, current_node_data, current_view, choice_original_id,
      player_data, metadata, sandboxVars, ipcVars>>

\* EmojiSchema.__init__, lines 4-7, in the application as constructed.
InitSchema ==
    /\ SandboxInit([description |-> PyStr("d")], [energy |-> PyInt(20)])
    /\ AppInit
    /\ IpcInit

\* EmojiSchema.update_schema, lines 32-34 (and EmojiEditor.save_emoji, which
\* assigns the text area's content the same way).
UpdateSchema(new_schema) ==
    /\ current_schema' = new_schema
    /\ lastOp' = [op |-> "update_schema", id |-> <<>>]
    /\ UNCHANGED notSchemaVars

\* EmojiSchema.reset_to_default, lines 44-46.
ResetToDefault ==
    /\ current_schema' = DefaultSchema
    /\ lastOp' = [op |-> "reset_to_default", id |-> <<>>]
    /\ UNCHANGED notSchemaVars

\* EmojiSchema.set_mapping, lines 48-52; lastOp keeps the call and the
\* mappings before it.
SetMapping(variable, emoji) ==
    /\ current_schema' = SetMappingOf(current_schema, variable, emoji)
    /\ lastOp' = [op |-> "set_mapping", id |-> <<>>, variable |-> variable,
                  emoji |-> emoji, before |-> TextToJson(current_schema)]
    /\ UNCHANGED notSchemaVars

\* EmojiSchema.remove_mapping, lines 54-59.
RemoveMapping(variable) ==
    /\ current_schema' = RemoveMappingOf(current_schema, variable)
    /\ lastOp' = [op |-> "remove_mapping", id |-> <<>>, variable |-> variable,
                  before |-> TextToJson(current_schema)]
    /\ UNCHANGED notSchemaVars

\* EmojiSchema.load_from_json_file, lines 72-76, and line 304 of TkApp.py:
\* the schema becomes the text of the mappings read.
LoadFromJsonFile(json_obj) ==
    /\ current_schema' = JsonToText(json_obj)
    /\ lastOp' = [op |-> "load_from_json_file", id |-> <<>>, json_obj |-> json_obj]
    /\ UNCHANGED notSchemaVars

NextSchema ==
    \/ \E new_schema \in SchemaTexts : UpdateSchema(new_schema)
    \/ ResetToDefault
    \/ \E variable \in SchemaVariables : \E emoji \in SchemaEmojis :
          SetMapping(variable, emoji)
    \/ \E variable \in SchemaVariables : RemoveMapping(variable)
    \/ \E json_obj \in SchemaFiles : LoadFromJsonFile(json_obj)

SpecSchema == InitSchema /\ [][NextSchema]_vars

-----------------------------------------------------------------------------
(* Properties *)

\* The identifiers of the node's choices.
ChoiceIds(node) ==
    LET cs == Get(node, "choices", <<>>) IN
    { cs[i]["id"] : i \in { j \in 1..Len(cs) : "id" \in DOMAIN cs[j] } }

\* The names execute itself puts into the environment.
Injected(node, pd) ==
    WhiteRoom \cup ContextNames \cup DOMAIN pd
        \cup { FlagName(ToLuaSafeId(id)) : id \in ChoiceIds(node) }

Returned_ == called /\ raised = "none" /\ pc = "idle"

\* C1: execute never raises: every call returns a value.
C1_NeverRaises == raised = "none"

\* C2 as claimed: failures of different kinds return different values, so
\* two failing calls of different kinds in a row never return the same value.
C2_FailureValuesDiffer ==
    [][(log.prefix # "" /\ log'.prefix # "" /\ log'.prefix # log.prefix)
          => ret' # ret]_vars

\* C2 as amended: every failure returns the same None; the kind (not a
\* string -> crash, does not parse -> syntax error, faults -> runtime error)
\* and the message are only in the printed line.
C2_FailureIsNoneAndPrinted ==
    Returned_ =>
        /\ (ret = None) <=> (log.prefix \in {SyntaxPrefix, RuntimePrefix, CrashPrefix})
        /\ (ret = None) => log.msg # ""
        /\ ~scriptFacts.text <=> log.prefix = CrashPrefix
        /\ (scriptFacts.text /\ ~scriptFacts.compiles) <=> log.prefix = SyntaxPrefix
        /\ (scriptFacts.compiles /\ success = "false") <=> log.prefix = RuntimePrefix

C2_Witness ==
    /\ Returned_ /\ ~scriptFacts.text
    /\ ret = None /\ log.prefix = CrashPrefix

\* C3: a script that does not parse yields the syntax-error failure and none
\* of its statements runs: the environment is as it was built.
C3_SyntaxErrorRunsNothing ==
    (Returned_ /\ scriptFacts.text /\ ~scriptFacts.compiles) =>
        /\ success = "false" /\ log.prefix = SyntaxPrefix /\ ret = None
        /\ ran = 0 /\ written = {} /\ envAfter = envStart

C3_Witness ==
    /\ Returned_ /\ scriptFacts.text /\ ~scriptFacts.compiles
    /\ log.prefix = SyntaxPrefix /\ ran = 0

\* C4: when the wrapper reports a failure (compile or run time) execute
\* returns None: no player_data, no choices_visibility, nothing read back.
C4_FailureExtractsNothing ==
    (Returned_ /\ success = "false") =>
        /\ ret = None
        /\ "player_data" \notin DOMAIN ret
        /\ "choices_visibility" \notin DOMAIN ret

C4_Witness ==
    /\ Returned_ /\ success = "false" /\ log.prefix = RuntimePrefix
    /\ envAfter # envStart /\ ret = None

\* C5: on success player_data has exactly the input keys, each with the value
\* its name has in the environment when the script finished (None for nil);
\* energy = 20 and 'energy = energy + 10' give 30.
C5_PlayerDataExtraction ==
    (ret.k = "ok") =>
        /\ DOMAIN ret.player_data = DOMAIN playerData
        /\ \A k \in DOMAIN playerData :
              ret.player_data[k] = (IF envAfter[k] = Nil THEN None ELSE envAfter[k])
        /\ (/\ playerData["energy"] = PyInt(20) /\ ran = 1
            /\ written = {"energy"} /\ envAfter["energy"].k = "int")
              => ret.player_data["energy"] = PyInt(30)

C5_Witness ==
    /\ ret.k = "ok" /\ playerData["energy"] = PyInt(20)
    /\ ret.player_data["energy"] = PyInt(30)
    /\ envAfter["tmp"] # Nil

\* C6: on success choices_visibility has one entry per choice identifier of
\* the node, true for every choice whose flag the script never assigned.
C6_EveryChoiceHasEntry ==
    (ret.k = "ok") =>
        /\ DOMAIN ret.choices_visibility = ChoiceIds(curNode)
        /\ \A id \in ChoiceIds(curNode) :
              FlagName(ToLuaSafeId(id)) \notin written
                  => ret.choices_visibility[id] = PyBool(TRUE)

\* C7: distinct identifiers of one node get distinct flag names, and the
\* lookup table maps every choice's safe name back to that choice's identifier.
C7_MangleInjective ==
    Returned_ =>
        \A id1 \in ChoiceIds(curNode) :
            /\ \A id2 \in ChoiceIds(curNode) :
                  id1 # id2 =>
                      FlagName(ToLuaSafeId(id1)) # FlagName(ToLuaSafeId(id2))
            /\ ToLuaSafeId(id1) \in DOMAIN choiceMap
            /\ choiceMap[ToLuaSafeId(id1)] = id1

\* C8: a call repeated with the same arguments returns what it returned.
C8_Isolation ==
    [][\A s \in IsoScripts :
          Execute(s) =>
              LET again == Outcome(s, curNode', playerData', libs', opened')
              IN again.ret = ret' /\ again.raised = raised']_vars

\* C9: every call starts from an environment whose only names are the ones
\* execute injects; a name an earlier script defined is not among them.
C9_FreshEnvironment ==
    called =>
        /\ \A n \in Names :
              envStart[n] # Nil => n \in Injected(curNode, playerData)
        /\ \A n \in defined :
              n \notin Injected(curNode, playerData) => envStart[n] = Nil

C9_Witness ==
    /\ Returned_ /\ success = "true"
    /\ "tmp" \in defined /\ envAfter["tmp"] = Nil /\ envStart["tmp"] = Nil

\* C10: a script that reaches for a symbol execute did not inject never
\* succeeds and opens nothing: the call fails with a syntax or runtime error.
C10_NoLeak ==
    /\ opened = {}
    /\ (Returned_ /\ scriptFacts.text /\ scriptFacts.usesOuter) =>
          /\ ret = None /\ success = "false"
          /\ log.prefix \in {SyntaxPrefix, RuntimePrefix}

C10_Witness ==
    /\ Returned_ /\ scriptFacts.usesOuter
    /\ log.prefix = RuntimePrefix /\ ran > 0 /\ ret = None /\ opened = {}

\* C11: when a successful script assigned false to the flag of one choice,
\* choices_visibility has false under that choice's own identifier, true
\* under every other identifier of the node, and player_data has the value
\* of every player variable the script assigned.
C11_ConditionalVisibility ==
    (ret.k = "ok") =>
        \A id \in ChoiceIds(curNode) :
            LET flag == FlagName(ToLuaSafeId(id)) IN
            (flag \in written /\ envAfter[flag] = PyBool(FALSE)) =>
                /\ id \in DOMAIN ret.choices_visibility
                /\ ret.choices_visibility[id] = PyBool(FALSE)
                /\ \A other \in ChoiceIds(curNode) \ {id} :
                      /\ other \in DOMAIN ret.choices_visibility
                      /\ ret.choices_visibility[other] = PyBool(TRUE)
                /\ \A k \in DOMAIN playerData \cap written :
                      ret.player_data[k] = LuaToPy(envAfter[k])

C19_FlagsTrueAtStart ==
    (called /\ raised = "none") =>
        \A id \in ChoiceIds(curNode) :
            envStart[FlagName(ToLuaSafeId(id))] = PyBool(TRUE)

C19_Witness ==
    /\ called /\ raised = "none" /\ success = "true" /\ ran > 0
    /\ "choice_a_b" \in DOMAIN playerData
    /\ playerData["choice_a_b"] = PyBool(FALSE)
    /\ <<"a", "-", "b">> \in ChoiceIds(curNode)
    /\ envStart["choice_a_b"] = PyBool(TRUE)

\* C13: a call of execute changes neither the caller's node data (url,
\* description, the choice list, each choice record) nor the caller's
\* player-data mapping.
C13_NoOutsideEffect ==
    [][curNode' = curNode /\ playerData' = playerData]_vars

\* C14: every call of execute comes back: a thread that is inside a script's
\* loop is eventually out of it again.
C14_EventuallyReturns == (pc # "idle") ~> (pc = "idle")

C16_OnlyExplicitRemoval ==
    [][\A id \in DOMAIN story_map :
          id \notin DOMAIN story_map' =>
              lastOp' = [op |-> "remove_story_node", id |-> id]]_vars

\* C16 as amended: an id leaves the story map only in a step of
\* remove_story_node for that id or in the load of a project.
C16_RemovalOrLoad ==
    [][\A id \in DOMAIN story_map :
          id \notin DOMAIN story_map' =>
              \/ lastOp' = [op |-> "remove_story_node", id |-> id]
              \/ lastOp'.op = "load_project"]_vars

C16_Witness ==
    /\ lastOp = [op |-> "remove_story_node", id |-> <<"a", "-", "b">>]
    /\ <<"a", "-", "b">> \notin DOMAIN story_map
    /\ <<"s">> \in DOMAIN story_map
    /\ \E i \in 1..Len(story_map[<<"s">>]["choices"]) :
          story_map[<<"s">>]["choices"][i]["id"] = <<"a", "-", "b">>

\* The choice list of every node the application holds.
ChoiceListsHeld ==
    { story_map[id]["choices"] : id \in DOMAIN story_map }
        \cup (IF current_node_data.kind = "own"
                 /\ "choices" \in DOMAIN current_node_data.node
              THEN { current_node_data.node["choices"] } ELSE {})

\* C17: no choice list holds two choices with the same id.
C17_ChoiceIdsUnique ==
    \A cs \in ChoiceListsHeld :
        \A i, j \in 1..Len(cs) : i # j => cs[i]["id"] # cs[j]["id"]

\* C18: when save_options is done the node holds, under script, description,
\* url and ending, the texts the form held.
C18_SaveStoresForm ==
    [][\A form \in NodeForms :
          SaveOptions(form) =>
              LET node == story_map'[NodeOf(App)["id"]] IN
              /\ node["script"] = form.script
              /\ node["description"] = form.description
              /\ node["url"] = form.url
              /\ node["ending"] = form.ending]_vars

\* The operations that end with the node editor built anew.
Displayed ==
    /\ lastOp.op \in {"edit_node", "save_options", "on_save", "open_choice_details"}
    /\ current_node_data.kind = "ref"

\* C20: the generated script has one flag line per choice of the node, in
\* list order, and the name in the i-th line is the name the sandbox gives
\* the flag of the i-th choice, injects as true and reads back.
C20_TemplateFlagsAgree ==
    Displayed =>
        LET node == NodeOf(App)
            scr == node["script"]
            cs == node["choices"]
            b == BuildEnv([choices |-> cs], EmptyDict)
            vis == ChoiceBools(b.env, b.map)
        IN /\ Len(scr) = TemplateHead + 2 * Len(cs) + TemplateTail
           /\ b.err = "none"
           /\ \A i \in 1..Len(cs) :
                 LET name == FlagName(ToLuaSafeId(cs[i]["id"])) IN
                 /\ scr[TemplateHead + 2 * i - 1] = name \o " = true"
                 /\ b.env[name] = PyBool(TRUE)
                 /\ cs[i]["id"] \in DOMAIN vis
                 /\ vis[cs[i]["id"]] = PyBool(TRUE)

C20_Witness ==
    /\ Displayed /\ lastOp.op = "on_save"
    /\ Len(NodeOf(App)["choices"]) = 2
    /\ NodeOf(App)["script"][TemplateHead + 1] = "choice_a_b = true"
    /\ NodeOf(App)["script"][TemplateHead + 3] = "choice_c_d = true"

\* C21: when _ensure_node_exists(node_id) has returned, node_id is a key of
\* the story map of the editor that called it, also when it was no key
\* before the call.
C21_EnsuredNodeExists ==
    \A p \in EditorPids :
        procs[p].pc = "ensured" =>
            procs[p].cmd.node_id \in DOMAIN procs[p].app.sm

\* C22: start_editor_process starts a process only when no editor process
\* it started earlier is alive, so at most one editor process started by
\* the visualizer is alive at any time.
C22_AtMostOneEditor == Cardinality({ p \in EditorPids : Alive(p) }) <= 1

\* A poll of process p ends in this step: the removal of line 113 or the
\* clean-up of lines 115-117 is its last statement.
PollEnds(p) ==
    /\ procs[p].pc \in {"remove", "cleanup"}
    /\ procs'[p].pc = "sleep"

NoDuplicates(s) == \A i, j \in DOMAIN s : s[i] = s[j] => i = j

Pending(t) ==
    \/ command_file.k = "pickle" /\ command_file.data.timestamp = t
    \/ writing # NotWriting /\ writing.cmd.timestamp = t /\ ~writing.unlinked
    \/ \E p \in EditorPids :
          /\ procs[p].pc \in {"handle", "ensured"}
          /\ procs[p].cmd.timestamp = t
ActedOn(t) ==
    \E p \in EditorPids : \E i \in DOMAIN procs[p].acted : procs[p].acted[i] = t

\* No editor has been closed or told to quit.
EditorsKeepRunning ==
    \A p \in EditorPids :
        procs[p].state = "unstarted"
            \/ (procs[p].state = "mainloop" /\ ~procs[p].quit)

\* C24: while the editor keeps running, a command written while it was
\* running is never lost: it has been acted on, or it is still in the
\* command file, in the visualizer's hands or in a poll's hands, so that it
\* can be acted on later.
C24_NoCommandLost ==
    EditorsKeepRunning =>
        \A i \in DOMAIN sent :
            sent[i].running => ActedOn(sent[i].timestamp) \/ Pending(sent[i].timestamp)

\* C25: once cleanup_resources has set the running flag of an editor to
\* false, its background loop begins no further iteration (no step leads
\* from the loop test to the shared-data write of line 77), and a thread
\* that has ended takes no further step.
C25_NoIterationAfterStop ==
    [][\A p \in EditorPids :
          /\ ~procs[p].running =>
                ~(procs[p].pc = "head" /\ procs'[p].pc = "save")
          /\ procs[p].pc \in {"done", "killed"} =>
                procs'[p].pc \in {"done", "killed"}]_vars

\* The flag is false and the loop has left by its test, after writing the
\* shared data, while the main thread is still joining.
C25_Witness ==
    \E p \in EditorPids :
        /\ procs[p].state = "joining"
        /\ ~procs[p].running
        /\ procs[p].pc = "done"
        /\ shared_data_file # NoFile

\* The graph just drawn, and the identifiers some choice of the story map
\* refers to.
Drawn == lastOp.op = "create_story_graph_visualization"
Referenced ==
    { id \in GraphTargets \ {<<>>} :
         \E k \in DOMAIN story_map :
            \E i \in 1..Len(story_map[k]["choices"]) :
               story_map[k]["choices"][i]["id"] = id }
NamedChoices ==
    { <<k, i>> \in (DOMAIN story_map) \X (1..MaxChoices) :
         i <= Len(story_map[k]["choices"]) /\ story_map[k]["choices"][i]["id"] # <<>> }

\* C26: for a non-empty story map the graph has exactly one vertex for each
\* id that is a key or is referred to by a choice with a non-empty id; the
\* vertex is a '(missing)' placeholder exactly if the id is no key; every
\* edge leads from a key to a vertex of the graph; and there is one edge
\* for each choice with a non-empty id, from its node to its id.
C26_GraphMatchesStoryMap ==
    (Drawn /\ DOMAIN story_map # {}) =>
        LET g == lastOp.graph
            wanted == DOMAIN story_map \cup Referenced
        IN /\ { g.nodes[i].name : i \in DOMAIN g.nodes } = wanted
           /\ Len(g.nodes) = Cardinality(wanted)
           /\ \A i \in DOMAIN g.nodes :
                 g.nodes[i].missing <=> g.nodes[i].name \notin DOMAIN story_map
           /\ \A j \in DOMAIN g.edges :
                 /\ g.edges[j].tail \in DOMAIN story_map
                 /\ g.edges[j].head \in wanted
           /\ Len(g.edges) = Cardinality(NamedChoices)
           /\ \A kc \in NamedChoices :
                 \E j \in DOMAIN g.edges :
                    /\ g.edges[j].tail = kc[1]
                    /\ g.edges[j].head = story_map[kc[1]]["choices"][kc[2]]["id"]

\* A drawn story map with a key that no choice names, a choice that names a
\* key, one that names no key, and one with an empty id.
C26_Witness ==
    /\ Drawn
    /\ DOMAIN story_map = GraphKeys
    /\ Len(lastOp.graph.nodes) = 3
    /\ Len(lastOp.graph.edges) = 2
    /\ \E k \in DOMAIN story_map : \E i \in 1..Len(story_map[k]["choices"]) :
          story_map[k]["choices"][i]["id"] = <<>>
    /\ \E i \in DOMAIN lastOp.graph.nodes : lastOp.graph.nodes[i].missing

\* A variable or an emoji the round trip is claimed for: not empty, without
\* an arrow, without a line break, without blanks at its ends.
Plain(s) ==
    /\ s # <<>>
    /\ FindSep(s, Arrow) = 0
    /\ FindSep(s, NewLine) = 0
    /\ Strip(s) = s
PlainMapping(m) == \A i \in DOMAIN m : Plain(m[i].variable) /\ Plain(m[i].emoji)

\* Two dicts are equal: the same items, each key once.
SameDict(a, b) == DictItems(a) = DictItems(b) /\ Len(a) = Len(b)

\* The mappings of a dict other than the one for a variable.
Others(d, variable) == { it \in DictItems(d) : it[1] # variable }

\* C27: reading back the text written for a mapping of plain variables and
\* emojis gives the mapping; after set_mapping(v, e) with plain v and e,
\* get_emoji(v) is e; after remove_mapping(v), get_emoji(v) is None; and
\* both leave every other mapping as it was.
C27_SchemaRoundTrip ==
    /\ (lastOp.op = "load_from_json_file" /\ PlainMapping(lastOp.json_obj)) =>
          SameDict(TextToJson(current_schema), lastOp.json_obj)
    /\ (lastOp.op = "set_mapping" /\ Plain(lastOp.variable) /\ Plain(lastOp.emoji)) =>
          /\ GetEmoji(current_schema, lastOp.variable) = Found(lastOp.emoji)
          /\ Others(TextToJson(current_schema), lastOp.variable)
                = Others(lastOp.before, lastOp.variable)
    /\ lastOp.op = "remove_mapping" =>
          /\ GetEmoji(current_schema, lastOp.variable) = None
          /\ Others(TextToJson(current_schema), lastOp.variable)
                = Others(lastOp.before, lastOp.variable)

\* A plain mapping set over the text the author left, with another mapping
\* in place.
C27_Witness ==
    /\ lastOp.op = "set_mapping"
    /\ Plain(lastOp.variable) /\ Plain(lastOp.emoji)
    /\ lastOp.variable \notin DictKeys(lastOp.before)
    /\ Others(lastOp.before, lastOp.variable) # {}
    /\ current_schema # SetMappingOf(DefaultSchema, lastOp.variable, lastOp.emoji)
    /\ GetEmoji(current_schema, lastOp.variable) = Found(lastOp.emoji)

\* C28: when the application starts the current node is the start node;
\* after every save of the metadata form the start node of the player
\* data, its current node and the metadata's start are the same id, and
\* the story map holds a node under that id whose id field is that id.
C28_StartNodeConsistent ==
    /\ lastOp.op = "init" => player_data.currentID = player_data.StartID
    /\ lastOp.op = "save_metadata" =>
          /\ player_data.StartID = metadata.start
          /\ player_data.currentID = metadata.start
          /\ metadata.start \in DOMAIN story_map
          /\ story_map[metadata.start]["id"] = metadata.start

\* The form saved with the entry it shows in a new project, which creates
\* the node.
C28_Witness ==
    /\ lastOp.op = "save_metadata"
    /\ metadata.start = <<"1">>
    /\ story_map = SetKey(EmptyDict, <<"1">>, NewNode(<<"1">>))

====
